---------------------------- MODULE Spec2Model ----------------------------
(***************************************************************************)
(* A model of go-jup-ag, a client of the Jupiter aggregator's HTTP API.     *)
(*                                                                         *)
(* The client (JupagImpl) is modelled as the revision that has all of      *)
(* Quote, Swap, Price, RoutesMap, BestSwap and ExchangeRate                *)
(* (src/unnamed/part_001); request, parseResponse, Swap, Price and         *)
(* RoutesMap are textually the same in src/unnamed/part_000.  The data     *)
(* types and GetRoutesForMint are those of src/utils/utils.go.             *)
(*                                                                         *)
(* Go values are modelled as follows.                                      *)
(*   error      a string, the message; NoErr ("") is the nil error         *)
(*   any(nil)   NilValue                                                   *)
(*   string     a TLA+ string, except where the code looks at the          *)
(*              characters (strconv): there it is a sequence of            *)
(*              one-character strings                                      *)
(*   uint64     where the width matters (Rate), four 16-bit limbs, least   *)
(*              significant first                                          *)
(***************************************************************************)
EXTENDS Integers, Sequences, FiniteSets, TLC

(***************************************************************************)
(* Bounds of the model.                                                    *)
(***************************************************************************)
\* Longest quote list a response body carries.
MaxQuotes == 2

(***************************************************************************)
(* Program constants.                                                      *)
(***************************************************************************)
StatusOK == 200
RetryCount == 1
HTTPTimeoutMs == 500

SwapModeExactIn == "ExactIn"
SwapModeExactOut == "ExactOut"

NoErr == ""
NilValue == [kind |-> "nil"]

\* The goroutines that call the one shared client.
Callers == {"g1", "g2"}


(***************************************************************************)
(* The client object.                                                      *)
(***************************************************************************)
\* NewJupag: the transport's settings and the five strings of the client.
NewJupag ==
    [ timeoutMs     |-> HTTPTimeoutMs,
      retryCount    |-> RetryCount,
      apiUrl        |-> "https://price.jup.ag/v6",
      quotePath     |-> "/quote",
      swapPath      |-> "/swap",
      pricePath     |-> "/price",
      routesMapPath |-> "/indexed-route-map" ]

(***************************************************************************)
(* Data the server may send.                                               *)
(***************************************************************************)
RouteA == [InAmount |-> <<"1", "0", "0">>, OutAmount |-> <<"2", "5", "0">>]
RouteB == [InAmount |-> <<"-", "1">>, OutAmount |-> <<"3">>]
Routes == {RouteA, RouteB}

RECURSIVE SeqsUpTo(_, _)
SeqsUpTo(S, n) ==
    IF n = 0 THEN {<<>>}
    ELSE LET shorter == SeqsUpTo(S, n - 1)
         IN  shorter \cup {Append(q, x) : q \in {r \in shorter : Len(r) = n - 1}, x \in S}

QuoteLists == SeqsUpTo(Routes, MaxQuotes)

SomePrices == {[ID |-> "SOL", Price |-> 1]}
\* An IndexedRouteMap is a function from its keys to lists of indices.
SomeRoutesMap ==
    [MintKeys |-> <<"SOL", "USDC">>, IndexedRouteMap |-> [k \in {"0"} |-> <<1>>]]
ZeroRoutesMap == [MintKeys |-> <<>>, IndexedRouteMap |-> <<>>]

\* The "data" member of a JSON object: absent, null, an array of routes or an object
\* of prices.
DataAbsent == [kind |-> "absent", quotes |-> <<>>, prices |-> {}]
DataNull == [kind |-> "null", quotes |-> <<>>, prices |-> {}]
DataArray(q) == [kind |-> "array", quotes |-> q, prices |-> {}]
DataObject(pr) == [kind |-> "object", quotes |-> <<>>, prices |-> pr]

\* A response body: bytes that are no JSON document, or a JSON object, of which the
\* decoders read the members data, swapTransaction, mintKeys and indexedRouteMap (a
\* member that is absent decodes to Go's zero value).
Garbage ==
    [kind |-> "garbage", data |-> DataAbsent, swapTransaction |-> "", routesMap |-> ZeroRoutesMap]
Object(d, tx, rm) ==
    [kind |-> "object", data |-> d, swapTransaction |-> tx, routesMap |-> rm]

Bodies ==
    {Garbage, Object(DataAbsent, "", ZeroRoutesMap), Object(DataNull, "", ZeroRoutesMap)}
    \cup {Object(DataArray(q), "", ZeroRoutesMap) : q \in QuoteLists}
    \cup {Object(DataObject(SomePrices), "", ZeroRoutesMap),
          Object(DataAbsent, "dHgx", ZeroRoutesMap),
          Object(DataAbsent, "", SomeRoutesMap)}

\* The answers of the server to one attempt: any body with status 200, and an error
\* status with or without a JSON body.
Statuses == {StatusOK, 404, 500}
Answers ==
    {[status |-> StatusOK, body |-> b] : b \in Bodies}
    \cup {[status |-> s, body |-> b] : s \in Statuses \ {StatusOK},
                                       b \in {Garbage, Object(DataAbsent, "", SomeRoutesMap)}}

\* The failures of one attempt in the transport (http.Client.Do returns an error):
\* the attempt's timeout expired.
AttemptErrors == {"Client.Timeout exceeded"}

NoResp == [status |-> 0, body |-> Garbage]

(***************************************************************************)
(* Parameters of the calls.                                                *)
(***************************************************************************)
Amounts == {1000}
SwapModes == {"", SwapModeExactIn, SwapModeExactOut}

QuoteParams(in, out, amount, fee, mode, direct) ==
    [ kind |-> "QuoteParams", InputMint |-> in, OutputMint |-> out, Amount |-> amount,
      FeeBps |-> fee, SwapMode |-> mode, OnlyDirectRoutes |-> direct ]

PriceParamsSet == {[kind |-> "PriceParams", IDs |-> "JitoSOL,SOL", VsToken |-> ""]}

BestSwapParamsSet ==
    { [ kind |-> "BestSwapParams", UserPublicKey |-> "user", DestinationPublicKey |-> "dest",
        FeeAmount |-> 0, FeeAccount |-> "fees", InputMint |-> "SOL", OutputMint |-> "USDC",
        Amount |-> a, SwapMode |-> m ]
      : a \in Amounts, m \in SwapModes }

ExchangeRateParamsSet ==
    { [ kind |-> "ExchangeRateParams", InputMint |-> x[1], OutputMint |-> x[2],
        Amount |-> a, SwapMode |-> x[3] ]
      : a \in Amounts,
        x \in {<<"SOL", "USDC", "">>, <<"SOL", "USDC", SwapModeExactIn>>,
               <<"USDC", "SOL", SwapModeExactOut>>} }

QuoteParamsSet ==
    { QuoteParams("SOL", "USDC", a, 0, x[1], x[2])
      : a \in Amounts,
        x \in {<<"", FALSE>>, <<SwapModeExactIn, FALSE>>, <<SwapModeExactOut, TRUE>>} }

SwapParams(route, user, wrap, feeAccount, legacy, dest) ==
    [ kind |-> "SwapParams", Route |-> route, UserPublicKey |-> user, WrapUnwrapSol |-> wrap,
      FeeAccount |-> feeAccount, AsLegacyTransaction |-> legacy,
      ComputeUnitPriceMicroLamports |-> <<>>, DestinationWallet |-> dest ]

\* utils.Pointer(v): a pointer is the sequence of what it points to; nil is <<>>.
Pointer(v) == <<v>>

SwapParamsSet ==
    {SwapParams(RouteA, "user", <<>>, "", <<>>, ""),
     SwapParams(RouteB, "user", Pointer(TRUE), "fees", Pointer(FALSE), "dest")}


(***************************************************************************)
(* request and parseResponse.                                              *)
(***************************************************************************)
\* query.Values of a parameter struct: the url tags of its fields, a field tagged
\* omitempty left out when it holds its zero value.
QueryValues(v) ==
    IF v.kind = "QuoteParams"
    THEN {<<"inputMint", v.InputMint>>, <<"outputMint", v.OutputMint>>,
          <<"amount", ToString(v.Amount)>>}
         \cup (IF v.SwapMode # "" THEN {<<"swapMode", v.SwapMode>>} ELSE {})
         \cup (IF v.OnlyDirectRoutes THEN {<<"onlyDirectRoutes", "true">>} ELSE {})
    ELSE {<<"ids", v.IDs>>}
         \cup (IF v.VsToken # "" THEN {<<"vsToken", v.VsToken>>} ELSE {})

\* utils.StructToUrlValues
StructToUrlValues(v) ==
    IF v.kind = "nil" THEN [val |-> {}, err |-> "struct is nil"]
    ELSE IF v.kind = "url.Values" THEN [val |-> v.values, err |-> NoErr]
    ELSE [val |-> QueryValues(v), err |-> NoErr]

\* json.Marshal of a request body: nil gives null, SwapParams its JSON object (a
\* field tagged omitempty is left out when it holds its zero value, so the zero
\* value stands for the absent member).
Marshal(body) ==
    IF body.kind = "nil"
    THEN [json |-> "null"]
    ELSE [ json |-> "object", route |-> body.Route, userPublicKey |-> body.UserPublicKey,
           wrapUnwrapSOL |-> body.WrapUnwrapSol, feeAccount |-> body.FeeAccount,
           asLegacyTransaction |-> body.AsLegacyTransaction,
           computeUnitPriceMicroLamports |-> body.ComputeUnitPriceMicroLamports,
           destinationWallet |-> body.DestinationWallet ]

\* JupagImpl.request, up to the call of the transport: the request it hands over,
\* or the error it returns without handing one over.  (url.Parse, json.Marshal and
\* http.NewRequest do not fail on the endpoints, bodies and methods of this package.)
request(method, endpoint, params, body) ==
    LET uv == StructToUrlValues(params)
    IN  IF uv.err # NoErr
        THEN [req |-> <<>>, err |-> "failed to convert params to url values: " \o uv.err]
        ELSE [ req |-> << [method |-> method, url |-> endpoint, query |-> uv.val,
                           body |-> Marshal(body)] >>,
               err |-> NoErr ]

\* JupagImpl.parseResponse: the data member of the envelope.
parseResponse(resp) ==
    IF resp.status # StatusOK
    THEN [data |-> DataAbsent, err |-> "unexpected status code: " \o ToString(resp.status)]
    ELSE IF resp.body.kind = "garbage"
    THEN [data |-> DataAbsent, err |-> "failed to decode response: invalid character"]
    ELSE [data |-> resp.body.data, err |-> NoErr]

\* json.Unmarshal(data, &quotes), quotes a slice of routes.
UnmarshalQuotes(data) ==
    CASE data.kind = "absent" -> [val |-> <<>>, err |-> "unexpected end of JSON input"]
      [] data.kind = "null"   -> [val |-> <<>>, err |-> NoErr]
      [] data.kind = "array"  -> [val |-> data.quotes, err |-> NoErr]
      [] OTHER                -> [val |-> <<>>, err |-> "cannot unmarshal object"]

\* json.Unmarshal(data, &price), price a map.
UnmarshalPrices(data) ==
    CASE data.kind = "absent" -> [val |-> {}, err |-> "unexpected end of JSON input"]
      [] data.kind = "null"   -> [val |-> {}, err |-> NoErr]
      [] data.kind = "object" -> [val |-> data.prices, err |-> NoErr]
      [] OTHER                -> [val |-> {}, err |-> "cannot unmarshal array"]

(***************************************************************************)
(* The four methods that issue one HTTP call: the request each builds, and *)
(* what each returns from what request returned (do.resp, do.err).         *)
(***************************************************************************)
QuoteRequest(c, params) == request("GET", c.apiUrl \o c.quotePath, params, NilValue)

\* QuoteResult without the check for an empty list.
QuoteResultUnchecked(do) ==
    IF do.err # NoErr
    THEN [val |-> <<>>, err |-> "failed to make quote request: " \o do.err]
    ELSE LET d == parseResponse(do.resp)
         IN  IF d.err # NoErr
             THEN [val |-> <<>>, err |-> "failed to parse quote response: " \o d.err]
             ELSE LET u == UnmarshalQuotes(d.data)
                  IN  IF u.err # NoErr
                      THEN [val |-> <<>>, err |-> "failed to parse quote response: " \o u.err]
                      ELSE [val |-> u.val, err |-> NoErr]

QuoteResult(do) ==
    IF do.err # NoErr
    THEN [val |-> <<>>, err |-> "failed to make quote request: " \o do.err]
    ELSE LET d == parseResponse(do.resp)
         IN  IF d.err # NoErr
             THEN [val |-> <<>>, err |-> "failed to parse quote response: " \o d.err]
             ELSE LET u == UnmarshalQuotes(d.data)
                  IN  IF u.err # NoErr
                      THEN [val |-> <<>>, err |-> "failed to parse quote response: " \o u.err]
                      ELSE IF Len(u.val) = 0
                      THEN [val |-> <<>>, err |-> "no quotes returned"]
                      ELSE [val |-> u.val, err |-> NoErr]

SwapRequest(c, params) == request("POST", c.apiUrl \o c.swapPath, NilValue, params)

SwapResult(do) ==
    IF do.err # NoErr
    THEN [val |-> "", err |-> "failed to make swap request: " \o do.err]
    ELSE IF do.resp.status # StatusOK
    THEN [val |-> "", err |-> "unexpected status code: " \o ToString(do.resp.status)]
    ELSE IF do.resp.body.kind = "garbage"
    THEN [val |-> "", err |-> "failed to decode response: invalid character"]
    ELSE [val |-> do.resp.body.swapTransaction, err |-> NoErr]

PriceRequest(c, params) == request("GET", c.apiUrl \o c.pricePath, params, NilValue)

PriceResult(do) ==
    IF do.err # NoErr
    THEN [val |-> {}, err |-> "failed to make price request: " \o do.err]
    ELSE LET d == parseResponse(do.resp)
         IN  IF d.err # NoErr
             THEN [val |-> {}, err |-> "failed to parse price response: " \o d.err]
             ELSE LET u == UnmarshalPrices(d.data)
                  IN  IF u.err # NoErr
                      THEN [val |-> {}, err |-> "failed to parse price response: " \o u.err]
                      ELSE [val |-> u.val, err |-> NoErr]

RoutesMapRequest(c, onlyDirectRoutes) ==
    request("GET", c.apiUrl \o c.routesMapPath,
            [ kind |-> "url.Values",
              values |-> {<<"onlyDirectRoutes", IF onlyDirectRoutes THEN "true" ELSE "false">>} ],
            NilValue)

RoutesMapResult(do) ==
    IF do.err # NoErr
    THEN [val |-> ZeroRoutesMap, err |-> "failed to make routes map request: " \o do.err]
    ELSE IF do.resp.body.kind = "garbage"
    THEN [ val |-> ZeroRoutesMap,
           err |-> "failed to parse routes map response: invalid character" ]
    ELSE [val |-> do.resp.body.routesMap, err |-> NoErr]


(***************************************************************************)
(* strconv.ParseInt(s, 10, 64) and the conversion to uint64, on 64-bit     *)
(* words of four 16-bit limbs, least significant limb first.               *)
(***************************************************************************)
LimbBase == 65536

Word(l0, l1, l2, l3) == <<l0, l1, l2, l3>>
ZeroWord == Word(0, 0, 0, 0)
\* 1<<64 - 1
MaxUint64 == Word(65535, 65535, 65535, 65535)
\* 1<<63
IntCutoff == Word(0, 0, 0, 32768)
\* 1<<63 - 1
MaxInt64 == Word(65535, 65535, 65535, 32767)
\* maxUint64/10 + 1 = 1844674407370955162
UintCutoff == Word(39322, 39321, 39321, 6553)

\* a >= b and a > b, unsigned
RECURSIVE GeFrom(_, _, _)
GeFrom(a, b, i) ==
    IF i = 0 THEN TRUE
    ELSE IF a[i] # b[i] THEN a[i] > b[i]
    ELSE GeFrom(a, b, i - 1)
Ge(a, b) == GeFrom(a, b, 4)
Gt(a, b) == Ge(a, b) /\ a # b

\* n * m + d modulo 2^64, for small m and d (the carry out of the top limb is lost).
MulAdd(n, m, d) ==
    LET t0 == n[1] * m + d
        t1 == n[2] * m + (t0 \div LimbBase)
        t2 == n[3] * m + (t1 \div LimbBase)
        t3 == n[4] * m + (t2 \div LimbBase)
    IN  Word(t0 % LimbBase, t1 % LimbBase, t2 % LimbBase, t3 % LimbBase)

\* -n modulo 2^64: the complement plus one.
Neg(n) ==
    MulAdd(Word(LimbBase - 1 - n[1], LimbBase - 1 - n[2], LimbBase - 1 - n[3],
                LimbBase - 1 - n[4]), 1, 1)

\* The value of a character as a digit; 36 for one that is none (ParseUint's default
\* case), 10 and more for a letter.
DigitOf(c) ==
    CASE c = "0" -> 0 [] c = "1" -> 1 [] c = "2" -> 2 [] c = "3" -> 3 [] c = "4" -> 4
      [] c = "5" -> 5 [] c = "6" -> 6 [] c = "7" -> 7 [] c = "8" -> 8 [] c = "9" -> 9
      [] c = "a" -> 10 [] c = "x" -> 33
      [] OTHER -> 36

\* ParseUint's loop over the characters from position i on, n the value so far.
RECURSIVE ParseUintLoop(_, _, _)
ParseUintLoop(s, i, n) ==
    IF i > Len(s) THEN [val |-> n, err |-> NoErr]
    ELSE LET d == DigitOf(s[i])
         IN  IF d >= 10 THEN [val |-> ZeroWord, err |-> "invalid syntax"]
             ELSE IF Ge(n, UintCutoff) THEN [val |-> MaxUint64, err |-> "value out of range"]
             ELSE LET n10 == MulAdd(n, 10, 0)
                      n1 == MulAdd(n10, 1, d)
                  IN  IF Gt(n10, n1)
                      THEN [val |-> MaxUint64, err |-> "value out of range"]
                      ELSE ParseUintLoop(s, i + 1, n1)

\* strconv.ParseUint(s, 10, 64)
ParseUint(s) ==
    IF Len(s) = 0 THEN [val |-> ZeroWord, err |-> "invalid syntax"]
    ELSE ParseUintLoop(s, 1, ZeroWord)

\* strconv.ParseInt(s, 10, 64): the int64 as its two's complement word.
ParseInt(s) ==
    IF Len(s) = 0 THEN [val |-> ZeroWord, err |-> "invalid syntax"]
    ELSE LET neg == s[1] = "-"
             rest == IF s[1] = "+" \/ s[1] = "-" THEN Tail(s) ELSE s
             un == ParseUint(rest)
         IN  IF un.err # NoErr /\ un.err # "value out of range"
             THEN [val |-> ZeroWord, err |-> un.err]
             ELSE IF ~neg /\ Ge(un.val, IntCutoff)
             THEN [val |-> MaxInt64, err |-> "value out of range"]
             ELSE IF neg /\ Gt(un.val, IntCutoff)
             THEN [val |-> IntCutoff, err |-> "value out of range"]
             ELSE [val |-> IF neg THEN Neg(un.val) ELSE un.val, err |-> NoErr]

\* uint64(n) of an int64 n: the same word.
Uint64(n) == n

\* ExchangeRate from the best route on: the Rate it returns.
RateOf(params, route) ==
    LET result == [ InputMint |-> params.InputMint, OutputMint |-> params.OutputMint,
                    InAmount |-> ZeroWord, OutAmount |-> ZeroWord ]
        inAmount == ParseInt(route.InAmount)
        outAmount == ParseInt(route.OutAmount)
    IN  IF inAmount.err # NoErr
        THEN [val |-> result, err |-> "failed to parse in amount: " \o inAmount.err]
        ELSE IF outAmount.err # NoErr
        THEN [val |-> result, err |-> "failed to parse out amount: " \o outAmount.err]
        ELSE [ val |-> [result EXCEPT !.InAmount = Uint64(inAmount.val),
                                      !.OutAmount = Uint64(outAmount.val)],
               err |-> NoErr ]


(***************************************************************************)
(* The state: the client, and per calling goroutine the call in progress.  *)
(*   pc        idle, do (the transport has the request), resp (the         *)
(*             transport returned), done (the call returned)               *)
(*   op        the method called; frame, the method whose HTTP call is     *)
(*             in progress (Quote and Swap inside BestSwap, ExchangeRate)  *)
(*   sent      the requests handed to the transport during the call        *)
(*   attempts  the attempts the transport made of the last of them         *)
(*   doErr     the transport's collected errors (heimdall's MultiError)    *)
(*   do        what request returned: the response and the error           *)
(*   quoteRes, selected, swapArg, swapRes                                  *)
(*             inside BestSwap and ExchangeRate: what Quote returned, the  *)
(*             route chosen, what Swap was called with and what it         *)
(*             returned (each a sequence, empty until it happens)          *)
(*   result    what the call returned: the error, and the value under the  *)
(*             name of its type (the other values are Go's zero values)    *)
(*   routesCall, rateCall                                                  *)
(*             a call of GetRoutesForMint on a decoded routes map, and the *)
(*             part of ExchangeRate that follows the choice of the route,  *)
(*             each on its own: the arguments, and what it returned        *)
(*             (routesCall.given is the receiver as it was at the call)    *)
(***************************************************************************)
VARIABLES client, calls, routesCall, rateCall

others == <<routesCall, rateCall>>

ZeroResult ==
    [ err |-> NoErr, quotes |-> <<>>, tx |-> "", prices |-> {},
      rate |-> [InputMint |-> "", OutputMint |-> "", InAmount |-> ZeroWord,
                OutAmount |-> ZeroWord],
      routesMap |-> ZeroRoutesMap ]

\* Where the value a method returns goes in result.
ResultField(op) ==
    CASE op = "Quote" -> "quotes"
      [] op \in {"Swap", "BestSwap"} -> "tx"
      [] op = "Price" -> "prices"
      [] op = "ExchangeRate" -> "rate"
      [] OTHER -> "routesMap"

Idle ==
    [ pc |-> "idle", op |-> "", params |-> NilValue, frame |-> "", sent |-> <<>>,
      attempts |-> 0, doErr |-> NoErr, do |-> [resp |-> NoResp, err |-> NoErr],
      quoteRes |-> <<>>, selected |-> <<>>, swapArg |-> <<>>, swapRes |-> <<>>,
      result |-> ZeroResult ]

StartCall(op, params) == [Idle EXCEPT !.op = op, !.params = params]

\* request's last statement: the request goes to the transport.
HandOver(L, frame, req) ==
    [L EXCEPT !.pc = "do", !.frame = frame, !.sent = Append(@, req), !.attempts = 0,
              !.doErr = NoErr]

\* The call returns res.val and res.err.
Returned(L, res) ==
    [L EXCEPT !.pc = "done",
              !.result = [ZeroResult EXCEPT ![ResultField(L.op)] = res.val, !.err = res.err]]

\* What a call returned.
ResultOf(L) == [val |-> L.result[ResultField(L.op)], err |-> L.result.err]

\* request returned an error before it reached the transport.
Failed(err) == [resp |-> NoResp, err |-> err]

(***************************************************************************)
(* The transport: heimdall's httpclient.Client.Do, as NewJupag sets it up. *)
(* One attempt: http.Client.Do answers within the timeout or fails.  An    *)
(* error or a status of 500 and more is retried while attempts remain;     *)
(* Do returns the last response, and the collected errors unless an        *)
(* attempt succeeded.                                                      *)
(***************************************************************************)
AttemptOutcomes ==
    {[resp |-> NoResp, err |-> e] : e \in AttemptErrors}
    \cup {[resp |-> a, err |-> NoErr] : a \in Answers}

\* DoAttempt with the loop's bound off by one: one attempt too many.
DoAttemptOnceMore(L, c, out) ==
    LET retry == out.err # NoErr \/ out.resp.status >= 500
        errs == IF out.err = NoErr THEN L.doErr
                ELSE IF L.doErr = NoErr THEN out.err
                ELSE L.doErr \o ", " \o out.err
    IN  IF retry /\ L.attempts <= c.retryCount
        THEN [L EXCEPT !.attempts = @ + 1, !.doErr = errs]
        ELSE [L EXCEPT !.attempts = @ + 1, !.pc = "resp",
                       !.doErr = IF retry THEN errs ELSE NoErr,
                       !.do = [resp |-> out.resp, err |-> IF retry THEN errs ELSE NoErr]]

DoAttempt(L, c, out) ==
    LET retry == out.err # NoErr \/ out.resp.status >= 500
        errs == IF out.err = NoErr THEN L.doErr
                ELSE IF L.doErr = NoErr THEN out.err
                ELSE L.doErr \o ", " \o out.err
    IN  IF retry /\ L.attempts < c.retryCount
        THEN [L EXCEPT !.attempts = @ + 1, !.doErr = errs]
        ELSE [L EXCEPT !.attempts = @ + 1, !.pc = "resp",
                       !.doErr = IF retry THEN errs ELSE NoErr,
                       !.do = [resp |-> out.resp, err |-> IF retry THEN errs ELSE NoErr]]

(***************************************************************************)
(* BestSwap and ExchangeRate.                                              *)
(***************************************************************************)
\* QuoteResponse.GetBestRoute: the outcomes it may have on a list of routes.
GetBestRoute(routes) ==
    {[route |-> <<>>, err |-> "no routes"]}
    \cup {[route |-> <<routes[i]>>, err |-> NoErr] : i \in 1..Len(routes)}

\* The parameters of BestSwap's call of Quote.
BestSwapQuoteParams(params) ==
    LET mode == IF params.SwapMode = "" THEN SwapModeExactIn ELSE params.SwapMode
    IN  QuoteParams(params.InputMint, params.OutputMint, params.Amount, params.FeeAmount,
                    mode, FALSE)

\* The parameters of BestSwap's call of Swap.
BestSwapSwapParams(params, route) ==
    SwapParams(route, params.UserPublicKey, Pointer(TRUE), params.FeeAccount, Pointer(TRUE),
               params.DestinationPublicKey)

\* BestSwapAfterQuote without the check of GetBestRoute's error: Swap is called with
\* the zero route when no route was chosen.
BestSwapAfterQuoteAnyRoute(L, c, quote, best) ==
    LET Q == [L EXCEPT !.quoteRes = <<quote>>]
    IN  IF quote.err # NoErr THEN Returned(Q, [val |-> "", err |-> quote.err])
        ELSE LET route == IF best.err = NoErr THEN best.route[1]
                          ELSE [InAmount |-> <<>>, OutAmount |-> <<>>]
                 sp == BestSwapSwapParams(L.params, route)
                 S == [Q EXCEPT !.selected = best.route, !.swapArg = <<sp>>]
                 r == SwapRequest(c, sp)
             IN  IF r.err = NoErr THEN HandOver(S, "Swap", r.req[1])
                 ELSE LET swap == SwapResult(Failed(r.err))
                      IN  Returned([S EXCEPT !.swapRes = <<swap>>],
                                   IF swap.err # NoErr THEN [val |-> "", err |-> swap.err]
                                   ELSE swap)

\* BestSwap from the return of Quote on, best the outcome of GetBestRoute.
BestSwapAfterQuote(L, c, quote, best) ==
    LET Q == [L EXCEPT !.quoteRes = <<quote>>]
    IN  IF quote.err # NoErr THEN Returned(Q, [val |-> "", err |-> quote.err])
        ELSE IF best.err # NoErr THEN Returned(Q, [val |-> "", err |-> best.err])
        ELSE LET sp == BestSwapSwapParams(L.params, best.route[1])
                 S == [Q EXCEPT !.selected = best.route, !.swapArg = <<sp>>]
                 r == SwapRequest(c, sp)
             IN  IF r.err = NoErr THEN HandOver(S, "Swap", r.req[1])
                 ELSE LET swap == SwapResult(Failed(r.err))
                      IN  Returned([S EXCEPT !.swapRes = <<swap>>],
                                   IF swap.err # NoErr THEN [val |-> "", err |-> swap.err]
                                   ELSE swap)

\* BestSwap from the return of Swap on.
BestSwapAfterSwap(L, swap) ==
    Returned([L EXCEPT !.swapRes = <<swap>>],
             IF swap.err # NoErr THEN [val |-> "", err |-> swap.err] ELSE swap)

\* The parameters of ExchangeRate's call of Quote.
ExchangeRateQuoteParams(params) ==
    QuoteParams(params.InputMint, params.OutputMint, params.Amount, 0, params.SwapMode, FALSE)

\* ExchangeRate from the return of Quote on.
ExchangeRateAfterQuote(L, quote, best) ==
    LET Q == [L EXCEPT !.quoteRes = <<quote>>]
        result == [ InputMint |-> L.params.InputMint, OutputMint |-> L.params.OutputMint,
                    InAmount |-> ZeroWord, OutAmount |-> ZeroWord ]
    IN  IF quote.err # NoErr THEN Returned(Q, [val |-> result, err |-> quote.err])
        ELSE IF best.err # NoErr THEN Returned(Q, [val |-> result, err |-> best.err])
        ELSE Returned([Q EXCEPT !.selected = best.route], RateOf(L.params, best.route[1]))

(***************************************************************************)
(* The calls.                                                              *)
(***************************************************************************)
\* Quote keeping the endpoint it built in the client.
QuoteKeepsEndpoint(p) ==
    /\ calls[p].pc = "idle"
    /\ \E params \in QuoteParamsSet :
          LET L == StartCall("Quote", params)
              r == QuoteRequest(client, params)
          IN  calls' = [calls EXCEPT ![p] =
                           IF r.err = NoErr THEN HandOver(L, "Quote", r.req[1])
                           ELSE Returned(L, QuoteResult(Failed(r.err)))]
    /\ client' = [client EXCEPT !.apiUrl = client.apiUrl \o client.quotePath]
    /\ UNCHANGED others

Quote(p) ==
    /\ calls[p].pc = "idle"
    /\ \E params \in QuoteParamsSet :
          LET L == StartCall("Quote", params)
              r == QuoteRequest(client, params)
          IN  calls' = [calls EXCEPT ![p] =
                           IF r.err = NoErr THEN HandOver(L, "Quote", r.req[1])
                           ELSE Returned(L, QuoteResult(Failed(r.err)))]
    /\ UNCHANGED <<client, others>>

Swap(p) ==
    /\ calls[p].pc = "idle"
    /\ \E params \in SwapParamsSet :
          LET L == StartCall("Swap", params)
              r == SwapRequest(client, params)
          IN  calls' = [calls EXCEPT ![p] =
                           IF r.err = NoErr THEN HandOver(L, "Swap", r.req[1])
                           ELSE Returned(L, SwapResult(Failed(r.err)))]
    /\ UNCHANGED <<client, others>>

Price(p) ==
    /\ calls[p].pc = "idle"
    /\ \E params \in PriceParamsSet :
          LET L == StartCall("Price", params)
              r == PriceRequest(client, params)
          IN  calls' = [calls EXCEPT ![p] =
                           IF r.err = NoErr THEN HandOver(L, "Price", r.req[1])
                           ELSE Returned(L, PriceResult(Failed(r.err)))]
    /\ UNCHANGED <<client, others>>

RoutesMap(p) ==
    /\ calls[p].pc = "idle"
    /\ \E onlyDirectRoutes \in BOOLEAN :
          LET L == StartCall("RoutesMap", [kind |-> "bool", value |-> onlyDirectRoutes])
              r == RoutesMapRequest(client, onlyDirectRoutes)
          IN  calls' = [calls EXCEPT ![p] =
                           IF r.err = NoErr THEN HandOver(L, "RoutesMap", r.req[1])
                           ELSE Returned(L, RoutesMapResult(Failed(r.err)))]
    /\ UNCHANGED <<client, others>>

BestSwap(p) ==
    /\ calls[p].pc = "idle"
    /\ \E params \in BestSwapParamsSet :
          LET L == StartCall("BestSwap", params)
              r == QuoteRequest(client, BestSwapQuoteParams(params))
          IN  calls' = [calls EXCEPT ![p] =
                           IF r.err = NoErr THEN HandOver(L, "Quote", r.req[1])
                           ELSE BestSwapAfterQuote(L, client, QuoteResult(Failed(r.err)),
                                                   [route |-> <<>>, err |-> "no routes"])]
    /\ UNCHANGED <<client, others>>

ExchangeRate(p) ==
    /\ calls[p].pc = "idle"
    /\ \E params \in ExchangeRateParamsSet :
          LET L == StartCall("ExchangeRate", params)
              r == QuoteRequest(client, ExchangeRateQuoteParams(params))
          IN  calls' = [calls EXCEPT ![p] =
                           IF r.err = NoErr THEN HandOver(L, "Quote", r.req[1])
                           ELSE ExchangeRateAfterQuote(L, QuoteResult(Failed(r.err)),
                                                       [route |-> <<>>, err |-> "no routes"])]
    /\ UNCHANGED <<client, others>>

\* One attempt of the transport.
Do(p) ==
    /\ calls[p].pc = "do"
    /\ \E out \in AttemptOutcomes :
          calls' = [calls EXCEPT ![p] = DoAttempt(calls[p], client, out)]
    /\ UNCHANGED <<client, others>>

\* Quote, Swap, Price or RoutesMap continues after request returned, and so does
\* BestSwap after its call of Swap.
MethodResult(frame, do) ==
    CASE frame = "Quote" -> QuoteResult(do)
      [] frame = "Swap" -> SwapResult(do)
      [] frame = "Price" -> PriceResult(do)
      [] OTHER -> RoutesMapResult(do)

MethodReturn(p) ==
    /\ calls[p].pc = "resp"
    /\ calls[p].op = calls[p].frame \/ calls[p].frame = "Swap"
    /\ LET L == calls[p]
           res == MethodResult(L.frame, L.do)
       IN  calls' = [calls EXCEPT ![p] =
                        IF L.op = "BestSwap" THEN BestSwapAfterSwap(L, res)
                        ELSE Returned(L, res)]
    /\ UNCHANGED <<client, others>>

\* BestSwap continues after its call of Quote returned.
BestSwapQuoteReturn(p) ==
    /\ calls[p].pc = "resp"
    /\ calls[p].op = "BestSwap"
    /\ calls[p].frame = "Quote"
    /\ LET quote == QuoteResult(calls[p].do)
       IN  \E best \in GetBestRoute(quote.val) :
              calls' = [calls EXCEPT ![p] = BestSwapAfterQuote(calls[p], client, quote, best)]
    /\ UNCHANGED <<client, others>>

\* ExchangeRate continues after its call of Quote returned.
ExchangeRateQuoteReturn(p) ==
    /\ calls[p].pc = "resp"
    /\ calls[p].op = "ExchangeRate"
    /\ calls[p].frame = "Quote"
    /\ LET quote == QuoteResult(calls[p].do)
       IN  \E best \in GetBestRoute(quote.val) :
              calls' = [calls EXCEPT ![p] = ExchangeRateAfterQuote(calls[p], quote, best)]
    /\ UNCHANGED <<client, others>>

\* The caller takes the result; the goroutine is free for its next call.
Finish(p) ==
    /\ calls[p].pc = "done"
    /\ calls' = [calls EXCEPT ![p] = Idle]
    /\ UNCHANGED <<client, others>>

(***************************************************************************)
(* IndexedRoutesMap.GetRoutesForMint.                                      *)
(***************************************************************************)
\* Longest list of indices an entry of IndexedRouteMap holds.
MaxRouteLen == 2

DigitChar(d) ==
    CASE d = 0 -> "0" [] d = 1 -> "1" [] d = 2 -> "2" [] d = 3 -> "3" [] d = 4 -> "4"
      [] d = 5 -> "5" [] d = 6 -> "6" [] d = 7 -> "7" [] d = 8 -> "8" [] OTHER -> "9"

\* strconv.Itoa of an index (never negative): its decimal digits.
RECURSIVE Itoa(_)
Itoa(i) == IF i < 10 THEN DigitChar(i) ELSE Itoa(i \div 10) \o DigitChar(i % 10)

\* m[key] of a Go map: the zero value, a nil slice, when the key is absent.
MapIndex(m, key) == IF key \in DOMAIN m THEN m[key] ELSE <<>>

\* FindMint stopping at the first position of the mint.
RECURSIVE FindMintFirst(_, _, _, _)
FindMintFirst(r, mint, key, mintKeys) ==
    IF key >= Len(r.MintKeys) THEN mintKeys
    ELSE IF r.MintKeys[key + 1] = mint THEN MapIndex(r.IndexedRouteMap, Itoa(key))
    ELSE FindMintFirst(r, mint, key + 1, mintKeys)

\* The first loop, from position key (0-based) on: mintKeys after it.
RECURSIVE FindMint(_, _, _, _)
FindMint(r, mint, key, mintKeys) ==
    IF key >= Len(r.MintKeys) THEN mintKeys
    ELSE FindMint(r, mint, key + 1,
                  IF r.MintKeys[key + 1] = mint
                  THEN MapIndex(r.IndexedRouteMap, Itoa(key))
                  ELSE mintKeys)

\* The second loop, from the i-th of mintKeys on: the result, or the panic of an
\* index out of range.
RECURSIVE CollectMints(_, _, _, _)
CollectMints(r, mintKeys, i, result) ==
    IF i > Len(mintKeys) THEN [panic |-> FALSE, val |-> result]
    ELSE IF mintKeys[i] < 0 \/ mintKeys[i] >= Len(r.MintKeys)
    THEN [panic |-> TRUE, val |-> <<>>]
    ELSE CollectMints(r, mintKeys, i + 1, Append(result, r.MintKeys[mintKeys[i] + 1]))

\* GetRoutesForMint: what it returns (or that it panics), and the receiver after it.
GetRoutesForMint(r, mint) ==
    LET mintKeys == FindMint(r, mint, 0, <<>>)
        out == CollectMints(r, mintKeys, 1, <<>>)
    IN  [panic |-> out.panic, val |-> out.val, r |-> r]

\* The routes maps a response may decode to.
MintKeyLists ==
    {<<>>, <<"SOL">>, <<"SOL", "USDC">>, <<"SOL", "SOL">>, <<"SOL", "USDC", "SOL">>}
KeyStrings == {"0", "1", "01"}
Indices == {-1, 0, 2}
RouteLists == SeqsUpTo(Indices, MaxRouteLen)
RouteMaps == UNION {[D -> RouteLists] : D \in SUBSET KeyStrings}
\* A map of twelve mints, SOL at position 10.
BigRoutesMap ==
    [ MintKeys |-> <<"m0", "m1", "m2", "m3", "m4", "m5", "m6", "m7", "m8", "m9", "SOL", "USDC">>,
      IndexedRouteMap |-> [k \in {"1", "10"} |-> IF k = "10" THEN <<11, 0>> ELSE <<3>>] ]
IndexedRoutesMaps ==
    {[MintKeys |-> k, IndexedRouteMap |-> m] : k \in MintKeyLists, m \in RouteMaps}
    \cup {BigRoutesMap}
LookupMints == {"SOL", "USDC", "JUP"}

NoRoutesResult == [panic |-> FALSE, val |-> <<>>, r |-> ZeroRoutesMap]

\* RoutesMap returned a routes map: the caller holds it, and a mint to look up.
DecodeRoutesMap ==
    /\ routesCall.pc = "none"
    /\ \E r \in IndexedRoutesMaps, mint \in LookupMints :
          routesCall' = [ pc |-> "call", given |-> r, r |-> r, mint |-> mint,
                          out |-> NoRoutesResult ]
    /\ UNCHANGED <<client, calls, rateCall>>

CallGetRoutesForMint ==
    /\ routesCall.pc = "call"
    /\ LET out == GetRoutesForMint(routesCall.r, routesCall.mint)
       IN  routesCall' = [routesCall EXCEPT !.pc = "returned", !.r = out.r, !.out = out]
    /\ UNCHANGED <<client, calls, rateCall>>

\* The caller has read the result.
DropRoutes ==
    /\ routesCall.pc = "returned"
    /\ routesCall' = [ pc |-> "none", given |-> ZeroRoutesMap, r |-> ZeroRoutesMap, mint |-> "",
                       out |-> NoRoutesResult ]
    /\ UNCHANGED <<client, calls, rateCall>>

(***************************************************************************)
(* ExchangeRate's arithmetic on the amounts of a route.                    *)
(***************************************************************************)
AmountStrings ==
    { <<"0">>,
      <<"7">>,
      <<"+", "5">>,
      <<"-", "1">>,
      <<"-", "0">>,
      <<"0", "0", "7">>,
      <<"+">>,
      <<"-">>,
      <<>>,
      <<"1", "x">>,
      <<"1", "2", "a">>,
      <<"9", "2", "2", "3", "3", "7", "2", "0", "3", "6", "8", "5", "4", "7", "7", "5", "8", "0", "7">>,
      <<"9", "2", "2", "3", "3", "7", "2", "0", "3", "6", "8", "5", "4", "7", "7", "5", "8", "0", "8">>,
      <<"-", "9", "2", "2", "3", "3", "7", "2", "0", "3", "6", "8", "5", "4", "7", "7", "5", "8", "0", "8">>,
      <<"-", "9", "2", "2", "3", "3", "7", "2", "0", "3", "6", "8", "5", "4", "7", "7", "5", "8", "0", "9">>,
      <<"1", "8", "4", "4", "6", "7", "4", "4", "0", "7", "3", "7", "0", "9", "5", "5", "1", "6", "1", "5">>,
      <<"1", "8", "4", "4", "6", "7", "4", "4", "0", "7", "3", "7", "0", "9", "5", "5", "1", "6", "1", "6">> }
RateParams ==
    {[InputMint |-> "SOL", OutputMint |-> "USDC"], [InputMint |-> "USDC", OutputMint |-> "SOL"]}
ZeroRate ==
    [ val |-> [InputMint |-> "", OutputMint |-> "", InAmount |-> ZeroWord,
               OutAmount |-> ZeroWord],
      err |-> NoErr ]

\* Quote returned and a best route was chosen.
ChooseRoute ==
    /\ rateCall.pc = "none"
    /\ \E params \in RateParams, in \in AmountStrings, out \in AmountStrings :
          rateCall' = [ pc |-> "call", params |-> params,
                        route |-> [InAmount |-> in, OutAmount |-> out], out |-> ZeroRate ]
    /\ UNCHANGED <<client, calls, routesCall>>

ComputeRate ==
    /\ rateCall.pc = "call"
    /\ rateCall' = [rateCall EXCEPT !.pc = "returned",
                                    !.out = RateOf(rateCall.params, rateCall.route)]
    /\ UNCHANGED <<client, calls, routesCall>>

\* ExchangeRate returned.
DropRate ==
    /\ rateCall.pc = "returned"
    /\ rateCall' = [ pc |-> "none", params |-> [InputMint |-> "", OutputMint |-> ""],
                     route |-> [InAmount |-> <<>>, OutAmount |-> <<>>], out |-> ZeroRate ]
    /\ UNCHANGED <<client, calls, routesCall>>

(***************************************************************************)
(* The specifications.                                                     *)
(***************************************************************************)
vars == <<client, calls, routesCall, rateCall>>

NoRoutesCall ==
    [ pc |-> "none", given |-> ZeroRoutesMap, r |-> ZeroRoutesMap, mint |-> "",
      out |-> NoRoutesResult ]
NoRateCall ==
    [ pc |-> "none", params |-> [InputMint |-> "", OutputMint |-> ""],
      route |-> [InAmount |-> <<>>, OutAmount |-> <<>>], out |-> ZeroRate ]

\* The client after NewJupag, called from every goroutine of Callers.
Init ==
    /\ client = NewJupag
    /\ calls = [p \in Callers |-> Idle]
    /\ routesCall = NoRoutesCall
    /\ rateCall = NoRateCall

Step(p) ==
    \/ Do(p)
    \/ MethodReturn(p)
    \/ BestSwapQuoteReturn(p)
    \/ ExchangeRateQuoteReturn(p)

Next ==
    \E p \in Callers :
        \/ Quote(p)
        \/ Swap(p)
        \/ Price(p)
        \/ RoutesMap(p)
        \/ BestSwap(p)
        \/ ExchangeRate(p)
        \/ Step(p)
        \/ Finish(p)

Spec == Init /\ [][Next]_vars

\* The client called from one goroutine only (the other never runs).  Each attempt
\* ends within the timeout and the goroutine runs on: a call in progress takes its
\* next step.
OneCaller == "g1"

InitOne ==
    /\ client = NewJupag
    /\ calls = [p \in Callers |-> IF p = OneCaller THEN Idle ELSE [Idle EXCEPT !.pc = "none"]]
    /\ routesCall = NoRoutesCall
    /\ rateCall = NoRateCall

FairSpec == InitOne /\ [][Next]_vars /\ WF_vars(Step(OneCaller))

\* GetRoutesForMint on the routes maps a response may decode to.
NextRoutes == DecodeRoutesMap \/ CallGetRoutesForMint \/ DropRoutes

SpecRoutes == Init /\ [][NextRoutes]_vars

\* ExchangeRate's arithmetic on the routes a response may carry.
NextRate == ChooseRoute \/ ComputeRate \/ DropRate

SpecRate == Init /\ [][NextRate]_vars


(***************************************************************************)
(* The properties.                                                         *)
(***************************************************************************)
QuoteUrl == NewJupag.apiUrl \o NewJupag.quotePath
SwapUrl == NewJupag.apiUrl \o NewJupag.swapPath
PriceUrl == NewJupag.apiUrl \o NewJupag.pricePath
RoutesMapUrl == NewJupag.apiUrl \o NewJupag.routesMapPath

HttpMethods == {"Quote", "Swap", "Price", "RoutesMap"}

\* The transport returned a response with status 200 and a JSON body.
Answered200(L) ==
    L.do.err = NoErr /\ L.do.resp.status = StatusOK /\ L.do.resp.body.kind = "object"

\* C1: a call of Swap that returned has sent exactly one request, a POST to the swap
\* endpoint whose body is the JSON encoding of its params, and if the answer had
\* status 200 and a decodable body, Swap returned that body's swapTransaction and a
\* nil error.
C1_SwapPostsAndReturnsTransaction ==
    \A p \in Callers :
        LET L == calls[p]
        IN  (L.op = "Swap" /\ L.pc = "done")
            => /\ Len(L.sent) = 1
               /\ L.sent[1].method = "POST"
               /\ L.sent[1].url = SwapUrl
               /\ L.sent[1].body = Marshal(L.params)
               /\ Answered200(L)
                  => ResultOf(L) = [val |-> L.do.resp.body.swapTransaction, err |-> NoErr]

\* C2: a call of BestSwap or ExchangeRate with an empty SwapMode issues a quote
\* request that carries swapMode=ExactOut.
C2_DefaultSwapModeExactOut ==
    \A p \in Callers :
        LET L == calls[p]
        IN  (L.op \in {"BestSwap", "ExchangeRate"} /\ L.params.SwapMode = "" /\ Len(L.sent) >= 1)
            => /\ L.sent[1].url = QuoteUrl
               /\ <<"swapMode", SwapModeExactOut>> \in L.sent[1].query

\* The decimal digits of a 64-bit word read as an unsigned integer.
DivTen(w) ==
    LET t3 == w[4]
        t2 == (t3 % 10) * LimbBase + w[3]
        t1 == (t2 % 10) * LimbBase + w[2]
        t0 == (t1 % 10) * LimbBase + w[1]
    IN  [quot |-> Word(t0 \div 10, t1 \div 10, t2 \div 10, t3 \div 10), rem |-> t0 % 10]

RECURSIVE DecimalFrom(_)
DecimalFrom(w) ==
    IF w = ZeroWord THEN <<>>
    ELSE LET d == DivTen(w) IN Append(DecimalFrom(d.quot), DigitChar(d.rem))

Decimal(w) == IF w = ZeroWord THEN <<"0">> ELSE DecimalFrom(w)

\* The integer a decimal string denotes: its sign, and its digits without leading
\* zeros.
RECURSIVE StripZeros(_)
StripZeros(ds) ==
    IF Len(ds) > 1 /\ ds[1] = "0" THEN StripZeros(Tail(ds)) ELSE ds

Denoted(s) ==
    LET signed == Len(s) > 0 /\ (s[1] = "+" \/ s[1] = "-")
        digits == StripZeros(IF signed THEN Tail(s) ELSE s)
    IN  [neg |-> Len(s) > 0 /\ s[1] = "-" /\ digits # <<"0">>, digits |-> digits]

\* The unsigned word w is the integer the string s denotes.
IsValueOf(w, s) == ~Denoted(s).neg /\ Decimal(w) = Denoted(s).digits

\* C3: when ExchangeRate returns a nil error, the Rate has the mints of the params
\* and, as InAmount and OutAmount, the integers that the route's InAmount and
\* OutAmount strings denote.
C3_RateHasRouteAmounts ==
    (rateCall.pc = "returned" /\ rateCall.out.err = NoErr)
    => /\ rateCall.out.val.InputMint = rateCall.params.InputMint
       /\ rateCall.out.val.OutputMint = rateCall.params.OutputMint
       /\ IsValueOf(rateCall.out.val.InAmount, rateCall.route.InAmount)
       /\ IsValueOf(rateCall.out.val.OutAmount, rateCall.route.OutAmount)

\* What Quote returned is an error, or a list of at least one route.
ErrorOrRoutes(res) == res.err # NoErr \/ Len(res.val) >= 1

\* C4: Quote never returns an empty list with a nil error, neither to its caller nor
\* to BestSwap and ExchangeRate (which choose only from a non-empty list); when the
\* data of a 200 answer decodes to zero quotes, Quote returns a nil (empty) result
\* and the error "no quotes returned".
C4_QuoteNeverEmpty ==
    \A p \in Callers :
        LET L == calls[p]
        IN  /\ (L.op = "Quote" /\ L.pc = "done")
               => /\ ErrorOrRoutes(ResultOf(L))
                  /\ ( /\ Answered200(L)
                       /\ L.do.resp.body.data.kind \in {"null", "array"}
                       /\ Len(L.do.resp.body.data.quotes) = 0 )
                     => ResultOf(L) = [val |-> <<>>, err |-> "no quotes returned"]
            /\ L.quoteRes # <<>> => ErrorOrRoutes(L.quoteRes[1])
            /\ L.selected # <<>>
               => /\ L.quoteRes # <<>>
                  /\ \E i \in 1..Len(L.quoteRes[1].val) : L.quoteRes[1].val[i] = L.selected[1]

C4_Witness ==
    \E p \in Callers :
        LET L == calls[p]
        IN  /\ L.op = "Quote"
            /\ L.pc = "done"
            /\ Answered200(L)
            /\ L.do.resp.body.data = DataArray(<<>>)
            /\ ResultOf(L) = [val |-> <<>>, err |-> "no quotes returned"]

\* The positions (0-based) of a mint in MintKeys, and the last of them.
PositionsOf(r, mint) == {i \in 0..(Len(r.MintKeys) - 1) : r.MintKeys[i + 1] = mint}
LastOf(S) == CHOOSE i \in S : \A j \in S : j <= i

\* The entry of IndexedRouteMap that decides the result: that of the last position of
\* the mint, under the decimal string of the position; none (the empty list) when
\* the mint has no position or the position no entry.
EntryFor(r, mint) ==
    IF PositionsOf(r, mint) = {} THEN <<>>
    ELSE LET key == ToString(LastOf(PositionsOf(r, mint)))
         IN  IF key \in DOMAIN r.IndexedRouteMap THEN r.IndexedRouteMap[key] ELSE <<>>

InRange(r, entry) == \A n \in 1..Len(entry) : entry[n] >= 0 /\ entry[n] < Len(r.MintKeys)

\* C5, as claimed: GetRoutesForMint returns MintKeys[j] for each j of the entry of the
\* mint's last position, in order (the empty list without such an entry), and leaves
\* the receiver unchanged.
C5_RoutesOfLastPosition ==
    routesCall.pc = "returned"
    => LET r == routesCall.given
           entry == EntryFor(r, routesCall.mint)
           out == routesCall.out
       IN  /\ ~out.panic
           /\ Len(out.val) = Len(entry)
           /\ \A n \in 1..Len(entry) :
                 /\ entry[n] >= 0
                 /\ entry[n] < Len(r.MintKeys)
                 /\ out.val[n] = r.MintKeys[entry[n] + 1]
           /\ routesCall.r = r

\* C5, amended: the same when every index of that entry is a position of MintKeys;
\* otherwise GetRoutesForMint panics (index out of range) and returns nothing.  The
\* receiver is unchanged either way.
C5_RoutesOfLastPositionInRange ==
    routesCall.pc = "returned"
    => LET r == routesCall.given
           entry == EntryFor(r, routesCall.mint)
           out == routesCall.out
       IN  /\ out.panic = ~InRange(r, entry)
           /\ InRange(r, entry)
              => /\ Len(out.val) = Len(entry)
                 /\ \A n \in 1..Len(entry) : out.val[n] = r.MintKeys[entry[n] + 1]
           /\ routesCall.r = r

\* The mint stands at two positions, both with an entry, and the entry of the last
\* has two indices in range.
C5_Witness ==
    /\ routesCall.pc = "returned"
    /\ routesCall.mint = "SOL"
    /\ routesCall.given.MintKeys = <<"SOL", "SOL">>
    /\ DOMAIN routesCall.given.IndexedRouteMap = {"0", "1"}
    /\ routesCall.given.IndexedRouteMap["0"] = <<-1>>
    /\ routesCall.given.IndexedRouteMap["1"] = <<0, 0>>
    /\ routesCall.out = [panic |-> FALSE, val |-> <<"SOL", "SOL">>, r |-> routesCall.given]

\* C6: a call of Quote, Swap, Price or RoutesMap hands at most one request to the
\* transport (BestSwap and ExchangeRate at most one per method they call), the
\* transport attempts it at most twice, and every call in progress returns.
C6_Bounded ==
    \A p \in Callers :
        LET L == calls[p]
        IN  /\ L.op \in HttpMethods => Len(L.sent) <= 1
            /\ Len(L.sent) <= 2
            /\ Len(L.sent) = 2 => L.sent[1].url # L.sent[2].url
            /\ L.attempts <= 2

C6_OneRequestTwoAttemptsReturns ==
    /\ []C6_Bounded
    /\ \A p \in Callers : (calls[p].pc \in {"do", "resp"}) ~> (calls[p].pc = "done")

C6_Witness ==
    \E p \in Callers :
        LET L == calls[p]
        IN  /\ L.op = "Price"
            /\ L.pc = "done"
            /\ Len(L.sent) = 1
            /\ L.attempts = 2
            /\ ResultOf(L).err = NoErr

\* C7: no operation changes the client: it is as NewJupag made it in every state,
\* whatever calls are in progress, and every request goes to an endpoint of NewJupag.
C7_ClientUnchanged ==
    /\ client = NewJupag
    /\ \A p \in Callers :
          \A i \in 1..Len(calls[p].sent) :
              calls[p].sent[i].url \in {QuoteUrl, SwapUrl, PriceUrl, RoutesMapUrl}

\* Two calls in progress at once, one at the transport and one past it.
C7_Witness ==
    /\ client = NewJupag
    /\ calls["g1"].pc = "do"
    /\ calls["g1"].op = "BestSwap"
    /\ calls["g1"].attempts = 1
    /\ calls["g2"].pc = "resp"
    /\ calls["g2"].op = "RoutesMap"

\* C8: BestSwap calls Swap only after Quote succeeded and a route of its list was
\* chosen, with that route, the params' UserPublicKey, DestinationPublicKey and
\* FeeAccount, and WrapUnwrapSol and AsLegacyTransaction true; a swap request is the
\* second request, after the quote request; when Quote or the choice fails BestSwap
\* returns "" with an error (Quote's own, when Quote failed), has not called Swap and
\* has sent no swap request; it returns a transaction only as Swap returned it, with
\* a nil error.
C8_BestSwapInOrder ==
    \A p \in Callers :
        LET L == calls[p]
        IN  L.op = "BestSwap"
            => /\ L.swapArg # <<>>
                  => /\ L.quoteRes # <<>>
                     /\ L.quoteRes[1].err = NoErr
                     /\ L.selected # <<>>
                     /\ \E i \in 1..Len(L.quoteRes[1].val) :
                           L.quoteRes[1].val[i] = L.selected[1]
                     /\ L.swapArg[1] =
                           SwapParams(L.selected[1], L.params.UserPublicKey, <<TRUE>>,
                                      L.params.FeeAccount, <<TRUE>>,
                                      L.params.DestinationPublicKey)
                     /\ Len(L.sent) >= 1
                     /\ L.sent[1].url = QuoteUrl
               /\ \A i \in 1..Len(L.sent) :
                     L.sent[i].url = SwapUrl
                     => i = 2 /\ L.swapArg # <<>> /\ L.sent[i].body = Marshal(L.swapArg[1])
               /\ L.swapRes # <<>> => L.swapArg # <<>>
               /\ (L.pc = "done" /\ L.quoteRes[1].err # NoErr)
                  => /\ ResultOf(L) = [val |-> "", err |-> L.quoteRes[1].err]
                     /\ L.swapArg = <<>>
                     /\ \A i \in 1..Len(L.sent) : L.sent[i].url # SwapUrl
               /\ (L.pc = "done" /\ L.quoteRes[1].err = NoErr /\ L.selected = <<>>)
                  => /\ ResultOf(L).val = ""
                     /\ ResultOf(L).err # NoErr
                     /\ L.swapArg = <<>>
                     /\ \A i \in 1..Len(L.sent) : L.sent[i].url # SwapUrl
               /\ (L.pc = "done" /\ ResultOf(L).val # "")
                  => /\ L.swapRes = <<[val |-> ResultOf(L).val, err |-> NoErr]>>
                     /\ ResultOf(L).err = NoErr

\* BestSwap returned after it called Swap with the second route of Quote's list.
C8_Witness ==
    \E p \in Callers :
        LET L == calls[p]
        IN  /\ L.op = "BestSwap"
            /\ L.pc = "done"
            /\ L.quoteRes = <<[val |-> <<RouteA, RouteB>>, err |-> NoErr]>>
            /\ L.selected = <<RouteB>>
            /\ L.swapArg = <<SwapParams(RouteB, "user", <<TRUE>>, "fees", <<TRUE>>, "dest")>>
            /\ L.swapRes # <<>>
            /\ ResultOf(L) = [val |-> "", err |-> L.swapRes[1].err]

=============================================================================
